---- MODULE Spec2Model ----
(***************************************************************************)
(* Model of src/cache.py: the entry point builds the metagraph once and    *)
(* then calls sync_miners(n) in an endless loop; sync_miners selects the   *)
(* n highest incentives with torch.topk, maps the selected positions to    *)
(* uids, looks the axon and the incentive up BY UID, prints one line per   *)
(* selected uid and sleeps 50 * 12 seconds.                                *)
(*                                                                         *)
(* Tensors and lists are 0-based in the source; the model keeps the        *)
(* source's 0-based positions and reads sequences through At.              *)
(***************************************************************************)
EXTENDS Integers, Sequences, FiniteSets

VARIABLES
    source,      \* the chain's current participant records (what a fetch would return)
    metagraph,   \* the module-level metagraph object of the script
    n,           \* the argument of sync_miners
    tieLow,      \* how this build's torch.topk orders equal values
    pc,          \* where the script is
    indices,     \* local of sync_miners: positions chosen by topk
    uids_with_highest_incentives,   \* local of sync_miners
    axons,       \* local of sync_miners: list of (axon, uid)
    out,         \* lines printed by the current call of sync_miners
    prevOut,     \* lines printed by the previous completed call
    err,         \* the exception that ended the script, "none" while it runs
    cycle,       \* calls of sync_miners started so far (saturates at MaxCycles)
    suspended    \* seconds slept since the last top-k selection

vars == <<source, metagraph, n, tieLow, pc, indices, uids_with_highest_incentives,
          axons, out, prevOut, err, cycle, suspended>>

----------------------------------------------------------------------------
(* Bounds of the model *)

MaxLen == 3
MaxInc == 1
MaxCycles == 2
MaxMovers == 1

(* Program constants *)

TopN == 10
Interval == 50 * 12

----------------------------------------------------------------------------
(* Sequences read with the source's 0-based positions *)

At(s, p) == s[p + 1]

Positions(s) == 0 .. (Len(s) - 1)

InRange(s, p) == p \in Positions(s)

----------------------------------------------------------------------------
(* The participant records.  The axon of the participant stored at         *)
(* position p has its own host and port, so a printed line tells which     *)
(* position the address came from.                                         *)

AxonAt(p) == [ip |-> 100 + p, port |-> 8000 + p]

Arange(len) == [k \in 1 .. len |-> k - 1]

MakeSnapshot(inc, ids) ==
    [incentive |-> inc, uids |-> ids, axons |-> [k \in 1 .. Len(inc) |-> AxonAt(k - 1)]]

IncentiveVectors(len) == [1 .. len -> 0 .. MaxInc]

\* the metagraph as bittensor builds it: uids[p] = p
SmallSnapshots ==
    { MakeSnapshot(inc, Arange(Len(inc))) :
        inc \in UNION { IncentiveVectors(len) : len \in 0 .. MaxLen } }

\* subnets around the size the entry point asks for
MainSnapshots ==
    { MakeSnapshot([k \in 1 .. len |-> (k * m) % (MaxInc + 1)], Arange(len)) :
        len \in (TopN - 1) .. (TopN + 1), m \in 0 .. 1 }

Snapshots == SmallSnapshots \cup MainSnapshots

\* records whose ids are unique integers but need not be their positions:
\* every lowest/highest incentive pattern, every injective id assignment
IdVectors(len) ==
    { ids \in [1 .. len -> 0 .. len] : \A a, b \in 1 .. len : a # b => ids[a] # ids[b] }

IdSnapshots ==
    { MakeSnapshot(inc, ids) :
        inc \in [1 .. MaxLen -> {0, MaxInc}], ids \in IdVectors(MaxLen) }

NoMetagraph == [incentive |-> <<>>, uids |-> <<>>, axons |-> <<>>]

NValues == ((0 - 1) .. (MaxLen + 1)) \cup {TopN}

----------------------------------------------------------------------------
(* torch.topk(input, k): k is checked against the size, the result is      *)
(* sorted by descending value; the order of equal values is not documented *)
(* and is modelled as a property of the build (tieLow).                    *)

TopKValid(input, k) == k >= 0 /\ k <= Len(input)

\* an order that puts the smaller value first
BeforeAscending(input, p, q, low) ==
    \/ At(input, p) < At(input, q)
    \/ At(input, p) = At(input, q) /\ (IF low THEN p < q ELSE p > q)

\* position p is returned before position q
Before(input, p, q, low) ==
    \/ At(input, p) > At(input, q)
    \/ At(input, p) = At(input, q) /\ (IF low THEN p < q ELSE p > q)

\* the number of positions returned before p
Rank(input, p, low) == Cardinality({ q \in Positions(input) : Before(input, q, p, low) })

\* the first k positions in descending order of value
TopKIndices(input, k, low) ==
    [j \in 1 .. k |-> CHOOSE p \in Positions(input) : Rank(input, p, low) = j - 1]

----------------------------------------------------------------------------
(* Initial states: the script has started and is about to build the        *)
(* metagraph; the chain holds some participant records.                    *)

InitWith(S, N) ==
    /\ source \in S
    /\ metagraph = NoMetagraph
    /\ n \in N
    /\ tieLow \in BOOLEAN
    /\ pc = "fetch"
    /\ indices = <<>>
    /\ uids_with_highest_incentives = <<>>
    /\ axons = <<>>
    /\ out = <<>>
    /\ prevOut = <<>>
    /\ err = "none"
    /\ cycle = 0
    /\ suspended = 0

Init == InitWith(Snapshots, NValues)

InitIds == InitWith(IdSnapshots, 1 .. MaxLen)

----------------------------------------------------------------------------
(* metagraph = subtensor.metagraph(netuid=4), executed once before the loop *)

Fetch ==
    /\ pc = "fetch"
    /\ metagraph' = source
    /\ pc' = "loop"
    /\ UNCHANGED <<source, n, tieLow, indices, uids_with_highest_incentives, axons,
                   out, prevOut, err, cycle, suspended>>

\* the connection to the chain fails: nothing catches the exception
FetchFail ==
    /\ pc = "fetch"
    /\ err' = "FetchError"
    /\ pc' = "halted"
    /\ UNCHANGED <<source, metagraph, n, tieLow, indices, uids_with_highest_incentives,
                   axons, out, prevOut, cycle, suspended>>

(* while True: asyncio.run(sync_miners(10)) -- one more call, fresh locals *)

Run ==
    /\ pc = "loop"
    /\ pc' = "topk"
    /\ cycle' = IF cycle < MaxCycles THEN cycle + 1 ELSE cycle
    /\ prevOut' = out
    /\ out' = <<>>
    /\ indices' = <<>>
    /\ uids_with_highest_incentives' = <<>>
    /\ axons' = <<>>
    /\ UNCHANGED <<source, metagraph, n, tieLow, err, suspended>>

\* a selection that takes min(n, size) records instead of checking n
TopKClamped ==
    /\ pc = "topk"
    /\ IF n >= 0
       THEN /\ indices' = TopKIndices(metagraph.incentive,
                              IF n > Len(metagraph.incentive)
                              THEN Len(metagraph.incentive) ELSE n, tieLow)
            /\ pc' = "uids"
            /\ suspended' = 0
            /\ UNCHANGED err
       ELSE /\ err' = "RuntimeError"
            /\ pc' = "halted"
            /\ UNCHANGED <<indices, suspended>>
    /\ UNCHANGED <<source, metagraph, n, tieLow, uids_with_highest_incentives, axons,
                   out, prevOut, cycle>>

\* a selection whose order of equal values changes from call to call
TopKUnstable ==
    /\ pc = "topk"
    /\ IF TopKValid(metagraph.incentive, n)
       THEN /\ indices' = TopKIndices(metagraph.incentive, n,
                              IF cycle % 2 = 0 THEN tieLow ELSE ~tieLow)
            /\ pc' = "uids"
            /\ suspended' = 0
            /\ UNCHANGED err
       ELSE /\ err' = "RuntimeError"
            /\ pc' = "halted"
            /\ UNCHANGED <<indices, suspended>>
    /\ UNCHANGED <<source, metagraph, n, tieLow, uids_with_highest_incentives, axons,
                   out, prevOut, cycle>>

(* indices = bt.torch.topk(metagraph.incentive, n).indices *)

TopK ==
    /\ pc = "topk"
    /\ IF TopKValid(metagraph.incentive, n)
       THEN /\ indices' = TopKIndices(metagraph.incentive, n, tieLow)
            /\ pc' = "uids"
            /\ suspended' = 0
            /\ UNCHANGED err
       ELSE /\ err' = "RuntimeError"
            /\ pc' = "halted"
            /\ UNCHANGED <<indices, suspended>>
    /\ UNCHANGED <<source, metagraph, n, tieLow, uids_with_highest_incentives, axons,
                   out, prevOut, cycle>>

(* uids_with_highest_incentives = metagraph.uids[indices].tolist() *)

Uids ==
    /\ pc = "uids"
    /\ uids_with_highest_incentives' =
           [k \in 1 .. Len(indices) |-> At(metagraph.uids, indices[k])]
    /\ pc' = "axons"
    /\ UNCHANGED <<source, metagraph, n, tieLow, indices, axons, out, prevOut, err,
                   cycle, suspended>>

\* the list replaced by a lazy lookup: a bad uid is only met while printing
AxonsLazy ==
    /\ pc = "axons"
    /\ axons' = [k \in 1 .. Len(uids_with_highest_incentives) |->
                   <<IF InRange(metagraph.axons, uids_with_highest_incentives[k])
                     THEN At(metagraph.axons, uids_with_highest_incentives[k])
                     ELSE AxonAt(uids_with_highest_incentives[k]),
                     uids_with_highest_incentives[k]>>]
    /\ pc' = IF Len(uids_with_highest_incentives) = 0 THEN "sleep" ELSE "print"
    /\ UNCHANGED <<source, metagraph, n, tieLow, indices, uids_with_highest_incentives,
                   out, prevOut, err, cycle, suspended>>

(* axons = [(metagraph.axons[uid], uid) for uid in uids_with_highest_incentives] *)
(* The list is built completely before the first line is printed.              *)

Axons ==
    /\ pc = "axons"
    /\ IF \A k \in 1 .. Len(uids_with_highest_incentives) :
              InRange(metagraph.axons, uids_with_highest_incentives[k])
       THEN /\ axons' = [k \in 1 .. Len(uids_with_highest_incentives) |->
                           <<At(metagraph.axons, uids_with_highest_incentives[k]),
                             uids_with_highest_incentives[k]>>]
            /\ pc' = IF Len(uids_with_highest_incentives) = 0 THEN "sleep" ELSE "print"
            /\ UNCHANGED err
       ELSE /\ err' = "IndexError"
            /\ pc' = "halted"
            /\ UNCHANGED axons
    /\ UNCHANGED <<source, metagraph, n, tieLow, indices, uids_with_highest_incentives,
                   out, prevOut, cycle, suspended>>

\* the incentive read at the selected position instead of at the uid
LineByPosition ==
    /\ pc = "print"
    /\ LET k == Len(out) + 1
           axon == axons[k][1]
       IN  /\ out' = Append(out, <<axon.ip, axon.port,
                                   At(metagraph.incentive, indices[k])>>)
           /\ pc' = IF k = Len(axons) THEN "sleep" ELSE "print"
    /\ UNCHANGED <<source, metagraph, n, tieLow, indices, uids_with_highest_incentives,
                   axons, prevOut, err, cycle, suspended>>

(* for axon, uid in axons: print(axon.ip, axon.port, metagraph.incentive[uid].item()) *)
(* One iteration of the loop.                                                        *)

PrintLine ==
    /\ pc = "print"
    /\ LET k == Len(out) + 1
           axon == axons[k][1]
           uid == axons[k][2]
       IN  IF InRange(metagraph.incentive, uid)
           THEN /\ out' = Append(out, <<axon.ip, axon.port, At(metagraph.incentive, uid)>>)
                /\ pc' = IF k = Len(axons) THEN "sleep" ELSE "print"
                /\ UNCHANGED err
           ELSE /\ err' = "IndexError"
                /\ pc' = "halted"
                /\ UNCHANGED out
    /\ UNCHANGED <<source, metagraph, n, tieLow, indices, uids_with_highest_incentives,
                   axons, prevOut, cycle, suspended>>

\* a sleep of 50 seconds
SleepShort ==
    /\ pc = "sleep"
    /\ suspended' = suspended + 50
    /\ pc' = "loop"
    /\ UNCHANGED <<source, metagraph, n, tieLow, indices, uids_with_highest_incentives,
                   axons, out, prevOut, err, cycle>>

\* a script that returns after its first report instead of looping
SleepThenExit ==
    /\ pc = "sleep"
    /\ suspended' = suspended + Interval
    /\ pc' = "halted"
    /\ UNCHANGED <<source, metagraph, n, tieLow, indices, uids_with_highest_incentives,
                   axons, out, prevOut, err, cycle>>

(* await asyncio.sleep(50 * 12), then sync_miners and asyncio.run return *)

Sleep ==
    /\ pc = "sleep"
    /\ suspended' = suspended + Interval
    /\ pc' = "loop"
    /\ UNCHANGED <<source, metagraph, n, tieLow, indices, uids_with_highest_incentives,
                   axons, out, prevOut, err, cycle>>

(* The chain moves on while the script sleeps: the incentive of one of the *)
(* first MaxMovers participants changes.                                   *)

ChainUpdate ==
    /\ pc = "sleep"
    /\ \E p \in 1 .. Len(source.incentive), v \in 0 .. MaxInc :
          /\ p <= MaxMovers
          /\ v # source.incentive[p]
          /\ source' = [source EXCEPT !.incentive[p] = v]
    /\ UNCHANGED <<metagraph, n, tieLow, pc, indices, uids_with_highest_incentives,
                   axons, out, prevOut, err, cycle, suspended>>

Next ==
    \/ Fetch
    \/ FetchFail
    \/ Run
    \/ TopK
    \/ Uids
    \/ Axons
    \/ PrintLine
    \/ Sleep
    \/ ChainUpdate

Spec == Init /\ [][Next]_vars

\* the same script over records whose ids need not be their positions
SpecIds == InitIds /\ [][Next]_vars

\* a sequential program takes its next step; every sleep completes
Step == Fetch \/ Run \/ TopK \/ Uids \/ Axons \/ PrintLine \/ Sleep

FairSpec == Spec /\ WF_vars(Step)

----------------------------------------------------------------------------
(* Vocabulary of the claims *)

\* the metagraph has been built
Fetched == pc # "fetch" /\ err # "FetchError"

\* the current call of sync_miners is past its selection, or has failed
Acted == Fetched /\ pc \in {"uids", "axons", "print", "sleep", "halted"}

\* a call of sync_miners has printed all its lines
Reported == pc = "sleep" \/ (pc = "loop" /\ cycle >= 1)

\* the line of the record stored at position p of the metagraph
LineOf(p) ==
    <<At(metagraph.axons, p).ip, At(metagraph.axons, p).port, At(metagraph.incentive, p)>>

\* the positions whose record has been printed by the current call
EmittedPositions ==
    { p \in Positions(metagraph.incentive) : \E k \in 1 .. Len(out) : out[k] = LineOf(p) }

NonIncreasing(lines) == \A k \in 1 .. (Len(lines) - 1) : lines[k][3] >= lines[k + 1][3]

NoLineTwice(lines) ==
    \A j, k \in 1 .. Len(lines) :
        j # k => <<lines[j][1], lines[j][2]>> # <<lines[k][1], lines[k][2]>>

OnlyRecords(lines) ==
    \A k \in 1 .. Len(lines) : \E p \in Positions(metagraph.incentive) : lines[k] = LineOf(p)

----------------------------------------------------------------------------
(* C1: for a non-empty metagraph and 1 <= n <= size, a call of sync_miners  *)
(* does not fail and prints exactly n lines; the lines are records of the  *)
(* metagraph, no record is printed twice, the incentives are in            *)
(* non-increasing order, and no record left out has a larger incentive     *)
(* than a printed one.                                                     *)

C2_AllRecordsWhenNExceeds ==
    (Fetched /\ Len(metagraph.incentive) >= 1 /\ n > Len(metagraph.incentive)) =>
        /\ err = "none"
        /\ Reported =>
              /\ Len(out) = Len(metagraph.incentive)
              /\ EmittedPositions = Positions(metagraph.incentive)
              /\ NonIncreasing(out)

(* C3: every call of sync_miners works on a snapshot fetched at the start  *)
(* of its own cycle: once the selection is made, the metagraph it was made *)
(* from is the chain's state of that cycle.                                *)

C3_FreshSnapshotEachCycle ==
    pc \in {"uids", "axons", "print"} => metagraph = source

(* C4 as the claim states it: a call of sync_miners on an empty metagraph   *)
(* fails, for every n, with the error EmptySnapshot and prints no line.    *)

C5_InvalidArgumentError ==
    (Acted /\ n <= 0) =>
        /\ pc = "halted"
        /\ err = "InvalidArgument"
        /\ out = <<>>

(* C6: a failure ends the script.  Once halted the script takes no further *)
(* step (no fetch, selection, print or sleep, no retry), the script halts  *)
(* only with an error, and the call that fails has printed no line.        *)

C6_FailureHalts ==
    [][ /\ pc # "halted"
        /\ pc' = "halted" => (err' # "none" /\ out' = <<>>) ]_vars

\* a call has failed on a uid that is no position of the axon list
C6_Witness ==
    /\ pc = "halted"
    /\ err = "IndexError"
    /\ Len(uids_with_highest_incentives) >= 2

(* C7: calls do not overlap and are one sleep of 600 seconds apart: when   *)
(* the sleep starts every line of the call has been printed, no sleep      *)
(* happens between a selection and the end of its printing, and a later    *)
(* call's selection starts with exactly one interval slept since the       *)
(* selection before it.                                                    *)

C7_OneSleepBetweenReports ==
    /\ Interval = 600
    /\ pc = "sleep" => Len(out) = Len(indices)
    /\ pc \in {"uids", "axons", "print", "sleep"} => suspended = 0
    /\ (pc = "loop" /\ cycle >= 1) => suspended = Interval
    /\ (pc = "topk" /\ cycle >= 2) => suspended = Interval

\* the entry point's second call is about to select, after a full report
C7_Witness ==
    /\ pc = "topk"
    /\ cycle = 2
    /\ n = TopN
    /\ Len(prevOut) = TopN
    /\ suspended = 600

(* C8: the script has no normal exit (it halts only with an error), and    *)
(* again and again either a call of sync_miners has completed its report   *)
(* or the script has failed: while nothing fails, reports never stop.      *)

C8_RunsForever ==
    /\ [](pc = "halted" => err # "none")
    /\ []<>(err # "none" \/ (pc = "sleep" /\ Len(out) = Len(indices)))

\* a report completed in a late cycle
C8_Witness ==
    /\ pc = "sleep"
    /\ cycle = MaxCycles
    /\ err = "none"
    /\ Len(out) >= 1

(* C9: a call of sync_miners leaves the metagraph as it is, and a call on  *)
(* the same metagraph with the same n prints the same lines in the same    *)
(* order as the call before it.                                            *)

C10_LookupByUid ==
    \A k \in 1 .. Len(out) :
        LET pos == indices[k]
            uid == At(metagraph.uids, pos)
        IN  /\ InRange(metagraph.axons, uid)
            /\ out[k] = LineOf(uid)
            /\ (<<out[k][1], out[k][2]>> =
                    <<At(metagraph.axons, pos).ip, At(metagraph.axons, pos).port>>)
                  <=> (uid = pos)

\* a printed line that belongs to another record than the selected one
C10_Witness ==
    /\ Len(out) >= 1
    /\ At(metagraph.uids, indices[1]) # indices[1]
    /\ out[1][3] # At(metagraph.incentive, indices[1])

====
